---- MODULE Spec2Model ----
(***************************************************************************)
(* State-machine model of webDAV_downloader.py (class WebDAVDownloader):   *)
(* the recursive download_folder traversal, the per-frame worker pools,    *)
(* download_file's temp-file / verify / rename protocol, the retrying      *)
(* session and the failure ledger.                                         *)
(*                                                                         *)
(* Strings are sequences of one-character strings ("/d/a" is               *)
(* <<"/","d","/","a">>) so that filter_string, Path(..).name and the       *)
(* temp-path concatenation are computed, not assumed.  A job id is one     *)
(* element of such a sequence.  File sizes are counted in chunks.          *)
(***************************************************************************)
EXTENDS Integers, Sequences, FiniteSets, TLC

VARIABLES
    mode,       \* "single" | "rerun" | "overlap": how many runs and how they are ordered
    world,      \* the remote tree served during the behaviour (never changes)
    eng,        \* eng[e]: the WebDAVDownloader object of run e and the state of its run
    stack,      \* stack[e]: the download_folder invocations of run e, innermost last
    tasks,      \* every future submitted so far (a sequence; the index is the task id)
    files,      \* local file system: path -> inode
    isize,      \* inode -> size in chunks
    dirs,       \* local directories
    ledger,     \* job id -> lines of failed_downloads_<job_id>.txt
    ended,      \* frame id -> how the invocation ended, for those that ended
    req         \* one request of the session followed attempt by attempt

mainvars == <<mode, world, eng, stack, tasks, files, isize, dirs, ledger, ended>>

vars == <<mode, world, eng, stack, tasks, files, isize, dirs, ledger, ended, req>>

(***************************************************************************)
(* Bounds of the model.                                                    *)
(***************************************************************************)
MaxSize == 2        \* size, in chunks, of the largest remote file
MaxCpus == 2        \* largest worker budget (slurm_cpus) tried
MaxDepth == 4       \* nested download_folder calls the interpreter's recursion limit allows

(***************************************************************************)
(* Program constants.                                                      *)
(***************************************************************************)
RetryTotal == 5     \* Retry(total=5)

StatusForcelist == {429, 500, 502, 503, 504}   \* Retry(status_forcelist=[...])

\* Statuses a server answers with in the model; 0 stands for a transport-level
\* failure (connection error, timeout), which urllib3 retries like a forced status.
Statuses == {0, 200, 207, 404} \cup StatusForcelist

None == << >>       \* Python's None where a str is expected ("if not item" treats both alike)

Engines == {1, 2}

(***************************************************************************)
(* Path helpers.                                                           *)
(***************************************************************************)
Max(a, b) == IF a >= b THEN a ELSE b

\* s[i..] starts with p
StartsAt(s, i, p) ==
    /\ i + Len(p) - 1 <= Len(s)
    /\ \A k \in 1..Len(p) : s[i + k - 1] = p[k]

EndsWithSlash(s) == Len(s) > 0 /\ s[Len(s)] = "/"

\* Path(p).name: the last component of p
LastSlash(s) ==
    LET idx == {i \in 1..Len(s) : s[i] = "/"}
    IN  IF idx = {} THEN 0 ELSE CHOOSE i \in idx : \A j \in idx : j <= i

Name(p) == SubSeq(p, LastSlash(p) + 1, Len(p))

\* str(Path(folder) / name)
JoinPath(folder, name) == folder \o <<"/">> \o name

\* Path(p).parent
Parent(p) == SubSeq(p, 1, LastSlash(p) - 1)

\* every ancestor directory of p up to p itself (mkdir(parents=True))
WithParents(p) ==
    {SubSeq(p, 1, i) : i \in {j \in 1..Len(p) : j = Len(p) \/ p[j + 1] = "/"}}

(***************************************************************************)
(* filter_string: re.search(rf"/{re.escape(base)}.*", input).group(0),     *)
(* the suffix of the input from the first occurrence of "/" + base.        *)
(***************************************************************************)
FilterNoSlash(base_string, input_string) ==
    LET hit == {i \in 1..Len(input_string) : StartsAt(input_string, i, base_string)}
    IN  IF hit = {} THEN None
        ELSE SubSeq(input_string, CHOOSE i \in hit : \A j \in hit : i <= j,
                    Len(input_string))

filter_string(base_string, input_string) ==
    LET pat == <<"/">> \o base_string
        hit == {i \in 1..Len(input_string) : StartsAt(input_string, i, pat)}
    IN  IF hit = {} THEN None
        ELSE SubSeq(input_string, CHOOSE i \in hit : \A j \in hit : i <= j,
                    Len(input_string))

(***************************************************************************)
(* The remote side: what the server holds.  Every href the server returns  *)
(* carries the server's own prefix "/x" before the path under the base     *)
(* directory "d"; download_folder is started on "/d/" with base_dir "d"    *)
(* and the local destination "L".                                          *)
(***************************************************************************)
BaseDir    == <<"d">>
RootRemote == <<"/", "d", "/">>
RootLocal  == <<"L">>

DirS  == <<"/", "d", "/", "s", "/">>
FileA == <<"/", "d", "/", "a">>
FileB == <<"/", "d", "/", "s", "/", "b">>
FileC == <<"/", "d", "/", "c">>
FileE == <<"/", "d", "/", "e">>
FileF == <<"/", "d", "2", "/", "f">>      \* lives in "d2", a sibling of the base directory
DirT  == <<"/", "d", "/", "t", "/">>
DirU  == <<"/", "d", "/", "s", "/", "u", "/">>
FileG == <<"/", "d", "/", "s", "/", "u", "/", "g">>
FileH == <<"/", "d", "/", "t", "/", "h">>

Href(p) == <<"/", "x">> \o p
HrefOther == <<"/", "x", "/", "o", "d">>  \* an entry outside the base directory

Worlds == {"plain", "junk", "chunked"}

\* deeper trees: a chain of three directories, two sibling subdirectories, and a
\* server that does not return the listed directory first
TreeWorlds == {"deep", "twin", "shuffled"}

\* The multistatus body of PROPFIND Depth:1 on a folder: the folder itself first,
\* then its entries.  A folder the server does not know has no listing.
Listing(w, folder) ==
    CASE w = "plain" /\ folder = RootRemote ->
            <<Href(RootRemote), Href(FileA), Href(DirS), Href(FileC)>>
      [] w = "junk" /\ folder = RootRemote ->
            <<Href(RootRemote), HrefOther, Href(FileF), Href(DirS)>>
      [] w = "chunked" /\ folder = RootRemote ->
            <<Href(RootRemote), Href(FileC), Href(FileE)>>
      [] w = "tiny" /\ folder = RootRemote ->
            <<Href(RootRemote), HrefOther, Href(DirS)>>
      [] w \in {"plain", "junk", "tiny", "twin"} /\ folder = DirS ->
            <<Href(DirS), Href(FileB)>>
      [] w = "deep" /\ folder = RootRemote ->
            <<Href(RootRemote), Href(FileA), Href(DirS), Href(FileC)>>
      [] w = "deep" /\ folder = DirS ->
            <<Href(DirS), Href(FileB), Href(DirU)>>
      [] w = "deep" /\ folder = DirU ->
            <<Href(DirU), Href(FileG)>>
      [] w = "twin" /\ folder = RootRemote ->
            <<Href(RootRemote), HrefOther, Href(DirS), Href(DirT)>>
      [] w = "twin" /\ folder = DirT ->
            <<Href(DirT), Href(FileH)>>
      [] w = "shuffled" /\ folder = RootRemote ->
            <<Href(FileA), Href(RootRemote)>>
      [] OTHER -> None

\* The remote files: size of the body in chunks, and whether the GET response
\* carries a Content-Length header (it does not under chunked transfer encoding).
RemoteFiles(w) ==
    CASE w = "plain"   -> {[path |-> FileA, size |-> 1, cl |-> TRUE],
                           [path |-> FileB, size |-> MaxSize, cl |-> TRUE],
                           [path |-> FileC, size |-> 1, cl |-> TRUE]}
      [] w = "junk"    -> {[path |-> FileF, size |-> 1, cl |-> TRUE],
                           [path |-> FileB, size |-> MaxSize, cl |-> TRUE]}
      [] w = "chunked" -> {[path |-> FileC, size |-> 1, cl |-> FALSE],
                           [path |-> FileE, size |-> 0, cl |-> FALSE]}
      [] w = "tiny"    -> {[path |-> FileB, size |-> 1, cl |-> TRUE]}
      [] w = "deep"    -> {[path |-> FileA, size |-> 1, cl |-> TRUE],
                           [path |-> FileB, size |-> 1, cl |-> TRUE],
                           [path |-> FileG, size |-> 1, cl |-> TRUE],
                           [path |-> FileC, size |-> 1, cl |-> TRUE]}
      [] w = "twin"    -> {[path |-> FileB, size |-> 1, cl |-> TRUE],
                           [path |-> FileH, size |-> 1, cl |-> TRUE]}
      [] w = "shuffled" -> {[path |-> FileA, size |-> 1, cl |-> TRUE]}

RemoteExists(w, p) == \E f \in RemoteFiles(w) : f.path = p
RemoteFile(w, p)   == CHOOSE f \in RemoteFiles(w) : f.path = p

(***************************************************************************)
(* __init__: the run identity and the worker budget.                       *)
(***************************************************************************)
NoJob == "no_job"
EnvJobId(e) == IF e = 1 THEN "j1" ELSE "j2"    \* SLURM_JOB_ID of run e, when set

JobId(use_slurm, env_job) ==
    IF use_slurm /\ env_job # None THEN env_job[1] ELSE NoJob

Construct(use_slurm, env_job, cpus) ==
    [job_id     |-> JobId(use_slurm, env_job),
     slurm_cpus |-> cpus,
     status     |-> "idle"]

\* temp_path = local_path + f".{self.job_id}.temp"
NoTempPath(local_path, job_id) == local_path

TempPath(local_path, job_id) == local_path \o <<".", job_id, ".temp">>

LedgerLines(job_id) == IF job_id \in DOMAIN ledger THEN ledger[job_id] ELSE << >>

(***************************************************************************)
(* Initial states: the engines constructed, nothing started, an empty      *)
(* local destination and no ledger.                                        *)
(***************************************************************************)
NoRequest == [method |-> "none", made |-> 0, status |-> 0, out |-> "none"]

Constructed(e) ==
    {Construct(u, j, c) : u \in BOOLEAN, j \in {None, <<EnvJobId(e)>>}, c \in 1..MaxCpus}

InitCommon ==
    /\ stack  = [e \in Engines |-> << >>]
    /\ tasks  = << >>
    /\ files  = << >>
    /\ isize  = << >>
    /\ dirs   = {}
    /\ ledger = << >>
    /\ ended  = << >>

\* one run
Init ==
    /\ mode = "single"
    /\ world \in Worlds
    /\ \E r \in Constructed(1) :
          eng = [e \in Engines |-> IF e = 1 THEN r ELSE [r EXCEPT !.status = "absent"]]
    /\ InitCommon
    /\ req = NoRequest

\* one run over a deeper tree
InitTree ==
    /\ mode = "single"
    /\ world \in TreeWorlds
    /\ \E c \in 1..MaxCpus :
          eng = [e \in Engines |->
                    IF e = 1 THEN Construct(FALSE, None, c)
                    ELSE [Construct(FALSE, None, c) EXCEPT !.status = "absent"]]
    /\ InitCommon
    /\ req = NoRequest

\* the same script run twice, the second run started when the first has ended
\* ("rerun") or at any time ("overlap")
TwoRuns ==
    \E u \in BOOLEAN, s \in BOOLEAN, c \in 1..MaxCpus :
        eng = [e \in Engines |-> Construct(u, IF s THEN <<EnvJobId(e)>> ELSE None, c)]

InitRerun ==
    /\ mode = "rerun"
    /\ world \in Worlds
    /\ TwoRuns
    /\ InitCommon
    /\ req = NoRequest

InitOverlap ==
    /\ mode = "overlap"
    /\ world = "tiny"
    /\ TwoRuns
    /\ InitCommon
    /\ req = NoRequest

\* no run: one request of the session is followed attempt by attempt
InitRetry ==
    /\ mode = "retry"
    /\ world = "plain"
    /\ eng = [e \in Engines |-> [Construct(FALSE, None, 1) EXCEPT !.status = "absent"]]
    /\ InitCommon
    /\ req \in {[method |-> m, made |-> 0, status |-> 0, out |-> "pending"] :
                    m \in {"GET", "PROPFIND"}}

(***************************************************************************)
(* The session built by _create_session: urllib3's Retry(total=RetryTotal) *)
(* allows RetryTotal retries after the first attempt.  An attempt that     *)
(* meets a transport failure or a status of the forcelist is retried while *)
(* retries are left and ends the request with an exception                 *)
(* (requests.exceptions.RequestException) otherwise; any other response is *)
(* handed to the caller, whose raise_for_status() raises for a status of   *)
(* 400 or more.  `made` is the number of attempts made before this one.    *)
(***************************************************************************)
RequestNoRetry(status, made) ==
    IF status = 0 \/ status >= 400 THEN "error" ELSE "ok"

Request(status, made) ==
    IF status = 0 \/ status \in StatusForcelist
    THEN IF made < RetryTotal THEN "retry" ELSE "error"
    ELSE IF status >= 400 THEN "error" ELSE "ok"

\* What the server may answer to one attempt.
Answers(method, exists) ==
    {0, 404} \cup StatusForcelist
        \cup (IF ~exists THEN {} ELSE IF method = "GET" THEN {200} ELSE {200, 207})

\* The whole request: the attempts follow one another inside session.request /
\* session.get until one is not retried.  `answers` are the server's answers in
\* order; the result tells how the request ended, with which status, after how
\* many attempts, and which answers were never asked for.
RECURSIVE Session(_, _)
Session(answers, made) ==
    IF answers = << >>
    THEN [out |-> "pending", status |-> 0, made |-> made, rest |-> << >>]
    ELSE LET out == Request(Head(answers), made)
         IN  IF out = "retry"
             THEN Session(Tail(answers), made + 1)
             ELSE [out |-> out, status |-> Head(answers), made |-> made + 1,
                   rest |-> Tail(answers)]

\* The answer sequences tried in the traversal: n retried answers, then one more.
Repeat(x, n) == [i \in 1..n |-> x]

AnswerSeqs(method, exists) ==
    {Repeat(r, n) \o <<f>> : r \in {0, 503}, n \in 0..RetryTotal,
                             f \in Answers(method, exists)}

Ends(answers) == Session(answers, 0).out # "pending" /\ Session(answers, 0).rest = << >>

(***************************************************************************)
(* Frames (download_folder invocations) and tasks (submitted futures).     *)
(***************************************************************************)
Top(e) == stack[e][Len(stack[e])]

Live(e) == eng[e].status = "running" /\ Len(stack[e]) > 0

OnStack(e) == {stack[e][i].id : i \in 1..Len(stack[e])}

FrameIds == OnStack(1) \cup OnStack(2) \cup DOMAIN ended

NewFrame(remote_folder, local_folder) ==
    [id               |-> Cardinality(FrameIds) + 1,
     remote_folder    |-> remote_folder,
     local_folder     |-> local_folder,
     pc               |-> "mkdir",
     items            |-> << >>,
     futures          |-> {},
     failed_downloads |-> << >>]

NewTask(e, fid, remote_path, local_path) ==
    [eng       |-> e,
     frame     |-> fid,
     remote    |-> remote_path,
     local     |-> local_path,
     pc        |-> "queued",
     file_size |-> 0,
     fd        |-> 0,
     off       |-> 0,
     fault     |-> "none",
     result    |-> "none",
     observed  |-> FALSE]

TaskIds == 1..Len(tasks)

Temp(t) == TempPath(tasks[t].local, eng[tasks[t].eng].job_id)

Active(t) == tasks[t].pc \notin {"queued", "done"}

SetTop(e, f) == [stack EXCEPT ![e][Len(stack[e])] = f]

\* The innermost invocation of run e ends: normally ("returned") or with the
\* exception re-raised by its except clause ("raised").  The caller resumes its
\* loop, or, on an exception, starts leaving its `with ThreadPoolExecutor` block.
\* `cause` remembers where it ended: "mkdir", "list" (the request failed), "empty"
\* (no items), "child" (a recursive call raised) or "joined".
EndFrameSwallow(e, how, cause) ==
    LET n    == Len(stack[e])
        rest == SubSeq(stack[e], 1, n - 1)
    IN  /\ ended' = ended @@ (stack[e][n].id :>
                        [how |-> how, cause |-> cause, eng |-> e,
                         remote_folder |-> stack[e][n].remote_folder])
        /\ IF n = 1
           THEN /\ stack' = [stack EXCEPT ![e] = << >>]
                /\ eng' = [eng EXCEPT ![e].status = how]
           ELSE /\ stack' = [stack EXCEPT ![e] = rest]
                /\ UNCHANGED eng

EndFrame(e, how, cause) ==
    LET n    == Len(stack[e])
        rest == SubSeq(stack[e], 1, n - 1)
    IN  /\ ended' = ended @@ (stack[e][n].id :>
                        [how |-> how, cause |-> cause, eng |-> e,
                         remote_folder |-> stack[e][n].remote_folder])
        /\ IF n = 1
           THEN /\ stack' = [stack EXCEPT ![e] = << >>]
                /\ eng' = [eng EXCEPT ![e].status = how]
           ELSE /\ stack' = [stack EXCEPT ![e] =
                       IF how = "raised"
                       THEN [rest EXCEPT ![n - 1].pc = "unwind"]
                       ELSE rest]
                /\ UNCHANGED eng

(***************************************************************************)
(* A run starts: download_folder(RootRemote, RootLocal, BaseDir).          *)
(***************************************************************************)
MayStart(e) ==
    \/ e = 1
    \/ mode = "overlap"
    \/ mode = "rerun" /\ eng[1].status \in {"returned", "raised"}

StartRun(e) ==
    /\ eng[e].status = "idle"
    /\ MayStart(e)
    /\ eng' = [eng EXCEPT ![e].status = "running"]
    /\ stack' = [stack EXCEPT ![e] = <<NewFrame(RootRemote, RootLocal)>>]
    /\ UNCHANGED <<req, mode, world, tasks, files, isize, dirs, ledger, ended>>

(***************************************************************************)
(* download_folder, line by line.                                          *)
(***************************************************************************)
\* Path(local_folder).mkdir(parents=True, exist_ok=True)
FMkdir(e) ==
    /\ Live(e) /\ Top(e).pc = "mkdir"
    /\ dirs' = dirs \cup WithParents(Top(e).local_folder)
    /\ stack' = SetTop(e, [Top(e) EXCEPT !.pc = "list"])
    /\ UNCHANGED <<req, mode, world, eng, tasks, files, isize, ledger, ended>>

\* ... which raises when the directory cannot be created
FMkdirFails(e) ==
    /\ Live(e) /\ Top(e).pc = "mkdir"
    /\ EndFrame(e, "raised", "mkdir")
    /\ UNCHANGED <<req, mode, world, tasks, files, isize, dirs, ledger>>

\* list_directory: the PROPFIND and raise_for_status().  A 207 gives the hrefs,
\* another success status gives [], a failed request raises.
list_directory(w, remote_folder, status) ==
    IF status = 207 THEN Listing(w, remote_folder) ELSE << >>

\* items.pop(0)
NotPopped(items) == items

Popped(items) == Tail(items)

FListed(e, answers) ==
    /\ Ends(answers)
    /\ LET f     == Top(e)
           r     == Session(answers, 0)
           items == list_directory(world, f.remote_folder, r.status)
       IN  CASE r.out = "error" ->
                  EndFrame(e, "raised", "list")
             [] r.out = "ok" /\ items = << >> ->        \* if not items: return
                  EndFrame(e, "returned", "empty")
             [] OTHER ->                                  \* items.pop(0)
                  /\ stack' = SetTop(e, [f EXCEPT !.pc = "loop", !.items = Popped(items)])
                  /\ UNCHANGED <<eng, ended>>
    /\ UNCHANGED <<req, mode, world, tasks, files, isize, dirs, ledger>>

FList(e) ==
    /\ Live(e) /\ Top(e).pc = "list"
    /\ \E answers \in AnswerSeqs("PROPFIND", Listing(world, Top(e).remote_folder) # None) :
          FListed(e, answers)

\* for item in items: item = self.filter_string(base_dir, item)
NextItem(e) == filter_string(BaseDir, Head(Top(e).items))

InLoop(e) == Live(e) /\ Top(e).pc = "loop" /\ Top(e).items # << >>

\* if not item: continue
FSkip(e) ==
    /\ InLoop(e)
    /\ NextItem(e) = None
    /\ stack' = SetTop(e, [Top(e) EXCEPT !.items = Tail(@)])
    /\ UNCHANGED <<req, mode, world, eng, tasks, files, isize, dirs, ledger, ended>>

\* if item.endswith('/'): self.download_folder(item, local_folder / name(item[:-1]), base_dir)
FRecurse(e) ==
    /\ InLoop(e)
    /\ NextItem(e) # None /\ EndsWithSlash(NextItem(e))
    /\ LET item  == NextItem(e)
           local == JoinPath(Top(e).local_folder, Name(SubSeq(item, 1, Len(item) - 1)))
       IN  stack' = IF Len(stack[e]) < MaxDepth
                    THEN [stack EXCEPT ![e] =
                             Append(SetTop(e, [Top(e) EXCEPT !.items = Tail(@)])[e],
                                    NewFrame(item, local))]
                    ELSE SetTop(e, [Top(e) EXCEPT !.pc = "unwind"])   \* RecursionError
    /\ UNCHANGED <<req, mode, world, eng, tasks, files, isize, dirs, ledger, ended>>

\* else: future = executor.submit(self.download_file, item, local_path)
FSubmit(e) ==
    /\ InLoop(e)
    /\ NextItem(e) # None /\ ~EndsWithSlash(NextItem(e))
    /\ LET item       == NextItem(e)
           local_path == JoinPath(Top(e).local_folder, Name(item))
       IN  /\ tasks' = Append(tasks, NewTask(e, Top(e).id, item, local_path))
           /\ stack' = SetTop(e, [Top(e) EXCEPT !.items = Tail(@),
                                                 !.futures = @ \cup {Len(tasks) + 1}])
    /\ UNCHANGED <<req, mode, world, eng, files, isize, dirs, ledger, ended>>

\* the for loop is over: for future in as_completed(future_to_path)
FLoopEnd(e) ==
    /\ Live(e) /\ Top(e).pc = "loop" /\ Top(e).items = << >>
    /\ stack' = SetTop(e, [Top(e) EXCEPT !.pc = "join"])
    /\ UNCHANGED <<req, mode, world, eng, tasks, files, isize, dirs, ledger, ended>>

\* one iteration of the as_completed loop: a finished future is observed and its
\* path recorded when it returned False or raised
RecordedAll(failed_downloads, t) == Append(failed_downloads, tasks[t].local)

Recorded(failed_downloads, t) ==
    IF tasks[t].result = "true" THEN failed_downloads
    ELSE Append(failed_downloads, tasks[t].local)

FJoin(e, t) ==
    /\ Live(e) /\ Top(e).pc = "join"
    /\ t \in Top(e).futures
    /\ tasks[t].pc = "done" /\ ~tasks[t].observed
    /\ tasks' = [tasks EXCEPT ![t].observed = TRUE]
    /\ stack' = SetTop(e, [Top(e) EXCEPT
                              !.failed_downloads = Recorded(@, t)])
    /\ UNCHANGED <<req, mode, world, eng, files, isize, dirs, ledger, ended>>

\* Every future has been observed: the with block is left, the batch is appended
\* to failed_downloads_<job_id>.txt when it is not empty, and the invocation returns.
NotJoined(f) == TRUE

Joined(f) == \A t \in f.futures : tasks[t].pc = "done" /\ tasks[t].observed

\* open(f"failed_downloads_{self.job_id}.txt", "a"): for path in failed_downloads: f.write
Overwritten(lines, failed_downloads) == failed_downloads

Appended(lines, failed_downloads) == lines \o failed_downloads

FReturn(e) ==
    /\ Live(e) /\ Top(e).pc = "join"
    /\ Joined(Top(e))
    /\ ledger' = IF Top(e).failed_downloads = << >> THEN ledger
                 ELSE [j \in DOMAIN ledger \cup {eng[e].job_id} |->
                          IF j = eng[e].job_id
                          THEN Appended(LedgerLines(j), Top(e).failed_downloads)
                          ELSE ledger[j]]
    /\ EndFrame(e, "returned", "joined")
    /\ UNCHANGED <<req, mode, world, tasks, files, isize, dirs>>

\* An exception of a recursive call leaves the with block: ThreadPoolExecutor's
\* __exit__ is shutdown(wait=True), which returns when every submitted future has
\* run; then the except clause re-raises.
NotWaiting(f) == TRUE

Finished(f) == \A t \in f.futures : tasks[t].pc = "done"

FUnwind(e) ==
    /\ Live(e) /\ Top(e).pc = "unwind"
    /\ Finished(Top(e))
    /\ EndFrame(e, "raised", "child")
    /\ UNCHANGED <<req, mode, world, tasks, files, isize, dirs, ledger>>

(***************************************************************************)
(* The local file system.  A path names an inode; open(.., "wb") truncates *)
(* the inode an existing path names, a writer keeps writing to the inode   *)
(* it opened whatever happens to the path, and os.rename moves the inode.  *)
(* An inode that no path names and no writer holds is forgotten.           *)
(***************************************************************************)
Exists(p) == p \in DOMAIN files

Size(p) == isize[files[p]]

Collect(fs, ts, sz) ==
    LET used == {fs[p] : p \in DOMAIN fs} \cup {ts[t].fd : t \in 1..Len(ts)}
    IN  [i \in DOMAIN sz \cap used |-> sz[i]]

Unlink(p) == [q \in DOMAIN files \ {p} |-> files[q]]

\* os.rename(src, dst)
RenameCopy(src, dst) ==
    [q \in DOMAIN files \cup {dst} |-> IF q = dst THEN files[src] ELSE files[q]]

Rename(src, dst) ==
    [q \in (DOMAIN files \ {src}) \cup {dst} |-> IF q = dst THEN files[src] ELSE files[q]]

(***************************************************************************)
(* download_file, line by line, run by a worker thread of the pool of the  *)
(* frame that submitted it.                                                *)
(***************************************************************************)
Running(fid) == {t \in TaskIds : tasks[t].frame = fid /\ Active(t)}

Queued(fid) == {t \in TaskIds : tasks[t].frame = fid /\ tasks[t].pc = "queued"}

\* ThreadPoolExecutor(max_workers=self.slurm_cpus)
OneWorkerMore(e) == eng[e].slurm_cpus + 1

MaxWorkers(e) == eng[e].slurm_cpus

\* HTTPAdapter(pool_maxsize=self.slurm_cpus * 2)
PoolMaxsize(e) == eng[e].slurm_cpus * 2

\* a worker of the frame's pool takes the oldest queued future
TStart(t) ==
    /\ tasks[t].pc = "queued"
    /\ \A u \in Queued(tasks[t].frame) : t <= u
    /\ Cardinality(Running(tasks[t].frame)) < MaxWorkers(tasks[t].eng)
    /\ tasks' = [tasks EXCEPT ![t].pc = "get"]
    /\ UNCHANGED <<req, mode, world, eng, stack, files, isize, dirs, ledger, ended>>

\* file_size = int(response.headers.get('content-length', 0))
ContentLength(w, remote_path) ==
    IF RemoteFile(w, remote_path).cl THEN RemoteFile(w, remote_path).size ELSE 0

\* self.session.get(..., stream=True); response.raise_for_status()
TGot(t, answers) ==
    /\ Ends(answers)
    /\ tasks' = [tasks EXCEPT ![t] =
          IF Session(answers, 0).out = "error"
          THEN [@ EXCEPT !.pc = "except", !.fault = "env"]
          ELSE [@ EXCEPT !.pc = "resp",
                         !.file_size = ContentLength(world, tasks[t].remote)]]
    /\ UNCHANGED <<req, mode, world, eng, stack, files, isize, dirs, ledger, ended>>

TGet(t) ==
    /\ tasks[t].pc = "get"
    /\ \E answers \in AnswerSeqs("GET", RemoteExists(world, tasks[t].remote)) :
          TGot(t, answers)

\* local_path_obj.parent.mkdir(parents=True, exist_ok=True)
\* if local_path_obj.exists() and local_path_obj.stat().st_size == file_size: return True
NeverComplete(local_path, file_size) == FALSE

Complete(local_path, file_size) == Exists(local_path) /\ Size(local_path) = file_size

TCheck(t) ==
    /\ tasks[t].pc = "resp"
    /\ dirs' = dirs \cup WithParents(Parent(tasks[t].local))
    /\ tasks' = [tasks EXCEPT ![t] =
          IF Complete(@.local, @.file_size)
          THEN [@ EXCEPT !.pc = "done", !.result = "true"]
          ELSE [@ EXCEPT !.pc = "open"]]
    /\ UNCHANGED <<req, mode, world, eng, stack, files, isize, ledger, ended>>

\* with open(temp_path, "wb") as file
TOpen(t) ==
    /\ tasks[t].pc = "open"
    /\ LET ino == IF Exists(Temp(t)) THEN files[Temp(t)] ELSE t
       IN  /\ files' = IF Exists(Temp(t)) THEN files ELSE files @@ (Temp(t) :> ino)
           /\ tasks' = [tasks EXCEPT ![t] = [@ EXCEPT !.pc = "stream", !.fd = ino, !.off = 0]]
           /\ isize' = Collect(files', tasks',
                               [i \in DOMAIN isize \cup {ino} |-> IF i = ino THEN 0 ELSE isize[i]])
    /\ UNCHANGED <<req, mode, world, eng, stack, dirs, ledger, ended>>

\* for chunk in response.iter_content(..): file.write(chunk)
BodySize(t) == RemoteFile(world, tasks[t].remote).size

TChunk(t) ==
    /\ tasks[t].pc = "stream"
    /\ tasks[t].off < BodySize(t)
    /\ isize' = [isize EXCEPT ![tasks[t].fd] = Max(@, tasks[t].off + 1)]
    /\ tasks' = [tasks EXCEPT ![t].off = @ + 1]
    /\ UNCHANGED <<req, mode, world, eng, stack, files, dirs, ledger, ended>>

\* the stream ends and the with block closes the file
CloseStream(t, why) ==
    /\ tasks' = [tasks EXCEPT ![t] = [@ EXCEPT !.pc = "verify", !.fd = 0, !.off = 0,
                                               !.fault = why]]
    /\ isize' = Collect(files, tasks', isize)
    /\ UNCHANGED <<req, mode, world, eng, stack, files, dirs, ledger, ended>>

TStreamEnd(t) ==
    /\ tasks[t].pc = "stream"
    /\ tasks[t].off = BodySize(t)
    /\ CloseStream(t, "none")

\* ... or ends early without an error: the body is truncated
TTruncated(t) ==
    /\ tasks[t].pc = "stream"
    /\ tasks[t].off < BodySize(t)
    /\ CloseStream(t, "trunc")

\* if os.path.getsize(temp_path) != file_size: raise ValueError(...)
Unverified(temp_path, file_size) == Exists(temp_path)

Verified(temp_path, file_size) == Exists(temp_path) /\ Size(temp_path) = file_size

TVerify(t) ==
    /\ tasks[t].pc = "verify"
    /\ tasks' = [tasks EXCEPT ![t].pc =
                    IF Verified(Temp(t), tasks[t].file_size) THEN "rename" ELSE "except"]
    /\ UNCHANGED <<req, mode, world, eng, stack, files, isize, dirs, ledger, ended>>

\* os.rename(temp_path, local_path); return True
TRename(t) ==
    /\ tasks[t].pc = "rename"
    /\ IF Exists(Temp(t))
       THEN /\ files' = Rename(Temp(t), tasks[t].local)
            /\ tasks' = [tasks EXCEPT ![t] = [@ EXCEPT !.pc = "done", !.result = "true"]]
            /\ isize' = Collect(files', tasks', isize)
       ELSE /\ tasks' = [tasks EXCEPT ![t].pc = "except"]
            /\ UNCHANGED <<files, isize>>
    /\ UNCHANGED <<req, mode, world, eng, stack, dirs, ledger, ended>>

\* an I/O error (mkdir, open, write, rename) or a network error while streaming
TFault(t) ==
    /\ tasks[t].pc \in {"resp", "open", "stream", "rename"}
    /\ tasks' = [tasks EXCEPT ![t] = [@ EXCEPT !.pc = "except", !.fd = 0, !.off = 0,
                                               !.fault = "env"]]
    /\ isize' = Collect(files, tasks', isize)
    /\ UNCHANGED <<req, mode, world, eng, stack, files, dirs, ledger, ended>>

\* except Exception: if os.path.exists(temp_path): ...
TExcept(t) ==
    /\ tasks[t].pc = "except"
    /\ tasks' = [tasks EXCEPT ![t] =
          IF Exists(Temp(t))
          THEN [@ EXCEPT !.pc = "remove"]
          ELSE [@ EXCEPT !.pc = "done", !.result = "false", !.file_size = 0]]
    /\ UNCHANGED <<req, mode, world, eng, stack, files, isize, dirs, ledger, ended>>

\* ... os.remove(temp_path); return False.  os.remove raises when the path is gone.
TRemove(t) ==
    /\ tasks[t].pc = "remove"
    /\ IF Exists(Temp(t))
       THEN /\ files' = Unlink(Temp(t))
            /\ tasks' = [tasks EXCEPT ![t] = [@ EXCEPT !.pc = "done", !.result = "false",
                                                       !.file_size = 0]]
       ELSE /\ tasks' = [tasks EXCEPT ![t] = [@ EXCEPT !.pc = "done", !.result = "raised",
                                                       !.file_size = 0]]
            /\ UNCHANGED files
    /\ isize' = Collect(files', tasks', isize)
    /\ UNCHANGED <<req, mode, world, eng, stack, dirs, ledger, ended>>

(***************************************************************************)
(* The specifications.                                                     *)
(***************************************************************************)
(***************************************************************************)
(* One request of the session, one attempt per step.                       *)
(***************************************************************************)
Attempt(status) ==
    /\ req.out = "pending"
    /\ status \in Answers(req.method, TRUE)
    /\ LET out == Request(status, req.made)
       IN  req' = [req EXCEPT !.made = @ + 1, !.status = status,
                              !.out = IF out = "retry" THEN "pending" ELSE out]
    /\ UNCHANGED mainvars

(***************************************************************************)
(* The specifications.                                                     *)
(***************************************************************************)
Next ==
    \/ \E e \in Engines : StartRun(e)
    \/ \E e \in Engines : FMkdir(e)
    \/ \E e \in Engines : FMkdirFails(e)
    \/ \E e \in Engines : FList(e)
    \/ \E e \in Engines : FSkip(e)
    \/ \E e \in Engines : FRecurse(e)
    \/ \E e \in Engines : FSubmit(e)
    \/ \E e \in Engines : FLoopEnd(e)
    \/ \E e \in Engines : \E t \in TaskIds : FJoin(e, t)
    \/ \E e \in Engines : FReturn(e)
    \/ \E e \in Engines : FUnwind(e)
    \/ \E t \in TaskIds : TStart(t)
    \/ \E t \in TaskIds : TGet(t)
    \/ \E t \in TaskIds : TCheck(t)
    \/ \E t \in TaskIds : TOpen(t)
    \/ \E t \in TaskIds : TChunk(t)
    \/ \E t \in TaskIds : TStreamEnd(t)
    \/ \E t \in TaskIds : TTruncated(t)
    \/ \E t \in TaskIds : TVerify(t)
    \/ \E t \in TaskIds : TRename(t)
    \/ \E t \in TaskIds : TFault(t)
    \/ \E t \in TaskIds : TExcept(t)
    \/ \E t \in TaskIds : TRemove(t)

NextRetry == \E status \in Statuses : Attempt(status)

\* one run into an empty destination
Spec == Init /\ [][Next]_vars

\* a second run after the first has ended
SpecRerun == InitRerun /\ [][Next]_vars

\* two runs that may overlap
SpecOverlap == InitOverlap /\ [][Next]_vars

\* one run over a deeper tree; every thread that can take a step eventually takes
\* one (the requests have timeouts, the threads are scheduled by the system)
SpecTree == InitTree /\ [][Next]_vars /\ WF_vars(Next)

\* one request
SpecRetry == InitRetry /\ [][NextRetry]_vars

(***************************************************************************)
(* Properties.                                                             *)
(***************************************************************************)
TasksOf(fid) == {t \in TaskIds : tasks[t].frame = fid}

RunTasks(e) == {t \in TaskIds : tasks[t].eng = e}

Count(seq, x) == Cardinality({i \in DOMAIN seq : seq[i] = x})

LedgerOf(t) == LedgerLines(eng[tasks[t].eng].job_id)

Writing(t) == tasks[t].fd # 0

Ended(e) == eng[e].status \in {"returned", "raised"}

\* the GET of t's remote path answers with the file and its Content-Length
WellServed(t) ==
    RemoteExists(world, tasks[t].remote) /\ RemoteFile(world, tasks[t].remote).cl

\* the file entries of a folder's listing that download_folder keeps
FileEntries(folder) ==
    LET l == Listing(world, folder)
    IN  {filter_string(BaseDir, l[i]) : i \in 2..Len(l)}
            \ ({None} \cup {x \in {filter_string(BaseDir, l[i]) : i \in 2..Len(l)} :
                                EndsWithSlash(x)})

\* C1: in every state of a run, a file at a final local path has the size of the
\* Content-Length its transfer observed, and the inode a transfer is still writing
\* is named by no final path (it is visible at the temporary path only).
C1_Integrity ==
    /\ \A t \in TaskIds :
          Exists(tasks[t].local) => Size(tasks[t].local) = tasks[t].file_size
    /\ \A t \in TaskIds : \A u \in TaskIds :
          Writing(t) /\ Exists(tasks[u].local) => files[tasks[u].local] # tasks[t].fd
    /\ \A p \in DOMAIN files : \E t \in TaskIds :
          \/ p = tasks[t].local
          \/ p = tasks[t].local \o <<".", eng[tasks[t].eng].job_id, ".temp">>

\* a committed file beside a half-written temporary file
C1_Witness ==
    \E t \in TaskIds : \E u \in TaskIds :
        /\ tasks[t].result = "true" /\ Exists(tasks[t].local)
        /\ Writing(u) /\ isize[tasks[u].fd] > 0 /\ isize[tasks[u].fd] < BodySize(u)

\* C2: when an invocation has returned after joining, every file entry of its
\* listing was submitted exactly once, every transfer that met no error of its own
\* is committed with a success outcome whatever happened to its siblings, and the
\* ledger holds exactly the paths of the transfers that failed, once each.
C2_Isolation ==
    \A fid \in DOMAIN ended :
        ended[fid].how = "returned" /\ ended[fid].cause = "joined" =>
            /\ \A item \in FileEntries(ended[fid].remote_folder) :
                  Cardinality({t \in TasksOf(fid) : tasks[t].remote = item}) = 1
            /\ \A t \in TasksOf(fid) :
                  /\ tasks[t].pc = "done"
                  /\ tasks[t].fault = "none" /\ WellServed(t) =>
                        /\ tasks[t].result = "true"
                        /\ Exists(tasks[t].local)
                        /\ Size(tasks[t].local) = BodySize(t)
                  /\ Count(LedgerOf(t), tasks[t].local) =
                        IF tasks[t].result = "true" THEN 0 ELSE 1

\* an invocation that returned with one transfer failed and a sibling committed
C2_Witness ==
    \E fid \in DOMAIN ended : \E t \in TasksOf(fid) : \E u \in TasksOf(fid) :
        /\ ended[fid].how = "returned"
        /\ tasks[t].result = "false" /\ tasks[t].fault = "env"
        /\ tasks[u].result = "true" /\ tasks[u].fault = "none"
        /\ Count(LedgerOf(t), tasks[t].local) = 1

\* C3: when the root invocation has ended, by returning or by raising, the path of
\* every transfer of the run that ended in failure is in the ledger.
C3_FailuresInLedger ==
    \A e \in Engines :
        Ended(e) =>
            \A t \in RunTasks(e) :
                tasks[t].result # "true" => Count(LedgerOf(t), tasks[t].local) > 0

\* the first run committed path p
Committed1(p) ==
    \E t \in RunTasks(1) : tasks[t].local = p /\ tasks[t].result = "true"

\* every remote file was committed by the first run
FirstComplete ==
    \A f \in RemoteFiles(world) :
        \E t \in RunTasks(1) : tasks[t].remote = f.path /\ tasks[t].result = "true"

\* no file of the local tree was written by the second run
TreeOfFirstRun == \A p \in DOMAIN files : tasks[files[p]].eng = 1

NoTransferError(e) == \A t \in RunTasks(e) : tasks[t].fault = "none"

\* C4 as stated: the local tree after a second run whose requests all succeed
\* equals the local tree after the first.
C4_Original ==
    eng[2].status = "returned" /\ NoTransferError(2) => TreeOfFirstRun

\* C4, amended: a transfer of the second run for a file the first run committed
\* never opens, writes, renames or removes anything and succeeds (by the skip)
\* when its request succeeds; the committed file stays the very file of the first
\* run; and when the first run committed every remote file, the tree after the
\* second run is the tree after the first, and the ledger is empty after both
\* when no transfer of the second run met an error.
C4_Idempotent ==
    /\ \A t \in RunTasks(2) :
          Committed1(tasks[t].local) =>
              /\ tasks[t].pc \in {"queued", "get", "resp", "except", "done"}
              /\ tasks[t].fd = 0
              /\ tasks[t].pc = "done" /\ tasks[t].fault = "none" => tasks[t].result = "true"
    /\ \A t \in RunTasks(1) :
          tasks[t].result = "true" =>
              Exists(tasks[t].local) /\ files[tasks[t].local] = t
    /\ Ended(2) /\ FirstComplete =>
          /\ TreeOfFirstRun
          /\ DOMAIN files = {tasks[t].local : t \in RunTasks(1)}
          /\ NoTransferError(2) => ledger = << >>

\* a second run that skipped a file of a complete first run
C4_Witness ==
    /\ eng[2].status = "returned" /\ FirstComplete
    /\ \E t \in RunTasks(2) : Committed1(tasks[t].local) /\ tasks[t].result = "true"

\* the local path that mirrors a remote path under the base directory
Mirror(p) == RootLocal \o SubSeq(p, Len(RootRemote), Len(p))

\* the remote tree lies under the base directory and every file has a Content-Length
WellFormed(w) ==
    \A f \in RemoteFiles(w) : StartsAt(f.path, 1, RootRemote) /\ f.cl

\* the run returned, every listing gave its entries and no transfer met an error
CleanRun(e) ==
    /\ eng[e].status = "returned"
    /\ NoTransferError(e)
    /\ \A fid \in DOMAIN ended : ended[fid].cause = "joined"

\* C5: after a run without errors into an empty destination the local files are
\* exactly the mirrors of the remote files, each with the remote size, the local
\* directories are the mirrors of the remote directories, no temporary file is left
\* and the ledger is empty.
C5_Mirror ==
    CleanRun(1) /\ WellFormed(world) =>
        /\ DOMAIN files = {Mirror(f.path) : f \in RemoteFiles(world)}
        /\ \A f \in RemoteFiles(world) : Size(Mirror(f.path)) = f.size
        /\ dirs = UNION {WithParents(Parent(Mirror(f.path))) : f \in RemoteFiles(world)}
        /\ ledger = << >>

\* a clean run over the tree with a subdirectory has ended
C5_Witness ==
    /\ CleanRun(1) /\ WellFormed(world)
    /\ JoinPath(JoinPath(RootLocal, <<"s">>), <<"b">>) \in DOMAIN files

\* C6: a transfer whose body ended before the Content-Length it was given never
\* succeeds and leaves no file at the final path; once it has returned, it
\* returned False, and once its invocation has returned its path is in the ledger.
C6_Truncated ==
    \A t \in TaskIds :
        tasks[t].fault = "trunc" /\ WellServed(t) =>
            /\ tasks[t].result \in {"none", "false"}
            /\ ~Exists(tasks[t].local)
            /\ tasks[t].frame \in DOMAIN ended /\ ended[tasks[t].frame].how = "returned" =>
                  Count(LedgerOf(t), tasks[t].local) = 1

\* a truncated transfer whose invocation has returned
C6_Witness ==
    \E t \in TaskIds :
        /\ tasks[t].fault = "trunc" /\ WellServed(t) /\ tasks[t].result = "false"
        /\ tasks[t].frame \in DOMAIN ended /\ ended[tasks[t].frame].how = "returned"

\* C7 as stated: the number of attempts of one request never exceeds total=5.
C7_Original == req.made <= RetryTotal

\* C7, amended: a request makes at most RetryTotal + 1 attempts (RetryTotal
\* retries); an attempt answered 429, 500, 502, 503 or 504 is retried while
\* retries are left and ends the request with an error on the last attempt; an
\* attempt answered 200 or 207 ends the request with success, and nothing else does.
C7_Retry ==
    /\ req.made <= RetryTotal + 1
    /\ req.made >= 1 =>
          /\ req.status \in {200, 207} <=> req.out = "ok"
          /\ req.status \in {429, 500, 502, 503, 504} /\ req.made <= RetryTotal =>
                req.out = "pending"
          /\ req.status \in {429, 500, 502, 503, 504} /\ req.made = RetryTotal + 1 =>
                req.out = "error"

\* a request that succeeded on its last permitted attempt
C7_Witness == req.out = "ok" /\ req.made = RetryTotal + 1

\* every href of every listing of the remote tree
AllEntries(w) ==
    UNION {{Listing(w, folder)[i] : i \in 1..Len(Listing(w, folder))} :
              folder \in {RootRemote, DirS}}

Occurs(pat, str) == \E i \in 1..Len(str) : StartsAt(str, i, pat)

\* base is one of the path segments of str
HasSegment(base, str) ==
    \E i \in 1..Len(str) :
        /\ StartsAt(str, i, <<"/">> \o base)
        /\ i + Len(base) + 1 > Len(str) \/ str[i + Len(base) + 1] = "/"

IsSuffix(x, str) ==
    Len(x) > 0 /\ Len(x) <= Len(str) /\ SubSeq(str, Len(str) - Len(x) + 1, Len(str)) = x

\* a transfer was submitted, or an invocation made, for the raw entry h
DispatchedFor(h) ==
    \/ \E t \in TaskIds : IsSuffix(tasks[t].remote, h)
    \/ \E e \in Engines : \E i \in 1..Len(stack[e]) :
          i > 1 /\ IsSuffix(stack[e][i].remote_folder, h)

\* the ledger holds a line for the raw entry h
CountedFor(h) ==
    \E j \in DOMAIN ledger : \E i \in 1..Len(ledger[j]) : Name(ledger[j][i]) = Name(h)

\* C8 as stated: an entry that does not have the base directory as a path segment
\* is never dispatched and never counted as a failure.
C8_Original ==
    \A h \in AllEntries(world) :
        ~HasSegment(BaseDir, h) => ~DispatchedFor(h) /\ ~CountedFor(h)

\* C8, amended: an entry in which "/" + base directory does not occur is mapped to
\* None by filter_string, is never dispatched and is never counted as a failure.
C8_Filter ==
    \A h \in AllEntries(world) :
        ~Occurs(<<"/">> \o BaseDir, h) =>
            /\ filter_string(BaseDir, h) = None
            /\ ~DispatchedFor(h)
            /\ ~CountedFor(h)

\* a run over the listing that holds such an entry has returned
C8_Witness ==
    /\ \E h \in AllEntries(world) : ~Occurs(<<"/">> \o BaseDir, h)
    /\ eng[1].status = "returned"
    /\ \A fid \in DOMAIN ended : ended[fid].cause = "joined"

\* C9: two transfers that have their temporary file open at the same time, be they
\* of one run or of two overlapping runs, never have the same temporary path.
C9_DistinctTemps ==
    \A t \in TaskIds : \A u \in TaskIds :
        t # u /\ Writing(t) /\ Writing(u) => Temp(t) # Temp(u)

\* C10: when an invocation has ended, by returning or by raising, every transfer it
\* submitted has finished, and when it returned each outcome has been observed.
C10_Joined ==
    \A fid \in DOMAIN ended : \A t \in TasksOf(fid) :
        /\ tasks[t].pc = "done"
        /\ ended[fid].how = "returned" => tasks[t].observed

\* an invocation that submitted a transfer and ended by raising
C10_Witness ==
    \E fid \in DOMAIN ended :
        ended[fid].how = "raised" /\ ended[fid].cause = "child" /\ TasksOf(fid) # {}

\* every invocation made so far: those on the stacks (live) and those that ended
Invocations ==
    UNION {{[id |-> stack[e][i].id, eng |-> e, live |-> TRUE,
             remote_folder |-> stack[e][i].remote_folder] : i \in 1..Len(stack[e])} :
              e \in Engines}
      \cup {[id |-> fid, eng |-> ended[fid].eng, live |-> FALSE,
              remote_folder |-> ended[fid].remote_folder] : fid \in DOMAIN ended}

IsPrefix(p, q) == Len(p) <= Len(q) /\ SubSeq(q, 1, Len(p)) = p

AllFolders == {RootRemote, DirS, DirT, DirU}

\* a listing or a transfer of the subtree of directory d has started
SubtreeStarted(d) ==
    \/ \E f \in Invocations : IsPrefix(d, f.remote_folder)
    \/ \E t \in TaskIds : IsPrefix(d, tasks[t].remote)

\* the invocation for directory d has ended and so has everything below it
SubtreeFinished(d) ==
    /\ \E f \in Invocations : f.remote_folder = d
    /\ \A f \in Invocations : IsPrefix(d, f.remote_folder) => ~f.live
    /\ \A t \in TaskIds : IsPrefix(d, tasks[t].remote) => tasks[t].pc = "done"

\* C11: for two subdirectory entries d1 listed before d2 in the same directory,
\* once any listing or transfer of d2's subtree has started, the invocation for d1
\* has ended and every invocation and transfer of d1's subtree has finished; so
\* transfers of two sibling subtrees are never active at the same time.
C11_SiblingsSerialised ==
    \A folder \in AllFolders :
        LET l == Listing(world, folder)
        IN  \A i \in 2..Len(l) : \A j \in 2..Len(l) :
                LET d1 == filter_string(BaseDir, l[i])
                    d2 == filter_string(BaseDir, l[j])
                IN  i < j /\ EndsWithSlash(d1) /\ EndsWithSlash(d2) /\ SubtreeStarted(d2) =>
                        /\ SubtreeFinished(d1)
                        /\ \A t \in TaskIds : \A u \in TaskIds :
                              IsPrefix(d1, tasks[t].remote) /\ IsPrefix(d2, tasks[u].remote) =>
                                  ~(Active(t) /\ Active(u))

\* a transfer of the second subdirectory is active after one of the first has finished
C11_Witness ==
    \E t \in TaskIds : \E u \in TaskIds :
        /\ IsPrefix(DirS, tasks[t].remote) /\ tasks[t].pc = "done"
        /\ IsPrefix(DirT, tasks[u].remote) /\ Active(u)

\* the invocations of run e that own a worker pool: those inside `with ThreadPoolExecutor`
Pools(e) == {i \in 1..Len(stack[e]) : stack[e][i].pc \in {"loop", "join", "unwind"}}

\* the invocations some transfer of which has not finished
Busy(e) == {tasks[t].frame : t \in {u \in RunTasks(e) : tasks[u].pc # "done"}}

\* C12: the transfers of one invocation that are running are never more than the
\* worker budget slurm_cpus, and the pools with work left are pools of invocations
\* on the recursion stack, at most one per invocation: an invocation that has ended
\* has left no transfer behind.
C12_WorkerBudget ==
    /\ \A f \in Invocations :
          Cardinality({t \in TasksOf(f.id) : Active(t)}) <= eng[f.eng].slurm_cpus
    /\ \A e \in Engines :
          /\ Busy(e) \subseteq {stack[e][i].id : i \in Pools(e)}
          /\ Cardinality(Busy(e)) <= Cardinality(Pools(e))
          /\ Cardinality(Pools(e)) <= Len(stack[e])

\* an invocation with its whole budget running and a transfer waiting in the queue
C12_Witness ==
    \E f \in Invocations :
        /\ Cardinality({t \in TasksOf(f.id) : Active(t)}) = eng[f.eng].slurm_cpus
        /\ \E t \in TasksOf(f.id) : tasks[t].pc = "queued"

\* the transfers of run e whose GET is under way or whose response body is still
\* being read (stream=True keeps the connection until the body has been consumed)
Transferring(e) ==
    {t \in RunTasks(e) : tasks[t].pc \in {"get", "resp", "open", "stream"}}

\* the PROPFIND of the innermost invocation is under way
Listings(e) == IF Live(e) /\ Top(e).pc = "list" THEN 1 ELSE 0

\* C13: at every moment of a run the requests in flight, the transfers of all live
\* invocations and the listing in progress, are at most pool_maxsize = 2 * slurm_cpus.
C13_PoolSuffices ==
    \A e \in Engines :
        Cardinality(Transferring(e)) + Listings(e) <= PoolMaxsize(e)

\* C14: list_directory hands a listing to download_folder only when the final
\* status of the PROPFIND is 207; for every other final status, a success status
\* other than 207 included, it raises: no invocation ends by the silent return
\* taken for an empty result (every directory of the remote tree lists at least itself).
C14_ListingOnly207 ==
    \A fid \in DOMAIN ended :
        ended[fid].how = "returned" => ended[fid].cause = "joined"

\* the invocations that enclose the invocation for directory d
Enclosing(d) ==
    {g \in Invocations : g.remote_folder # d /\ IsPrefix(g.remote_folder, d)}

\* the entries of g's listing that come after the entry leading to directory d
EntriesAfter(g, d) ==
    LET l == Listing(world, g.remote_folder)
    IN  {filter_string(BaseDir, l[j]) : j \in {k \in 2..Len(l) :
            \E i \in 2..(k - 1) :
                /\ filter_string(BaseDir, l[i]) # None
                /\ EndsWithSlash(filter_string(BaseDir, l[i]))
                /\ IsPrefix(filter_string(BaseDir, l[i]), d)}} \ {None}

\* the listing of subdirectory d failed
ListingFailed(f) ==
    /\ ~f.live /\ f.remote_folder # RootRemote
    /\ ended[f.id].how = "raised" /\ ended[f.id].cause = "list"

\* C15: when the listing of a subdirectory has failed, every enclosing invocation
\* ends by raising because of its child (it is unwinding when it is the innermost
\* one left), the run ends raised, no entry listed after the failing one in an
\* enclosing invocation is dispatched, and every transfer that returned success
\* keeps its file at the final path.
C15_ListingFailure ==
    \A f \in Invocations :
        ListingFailed(f) =>
            /\ \A g \in Enclosing(f.remote_folder) :
                  /\ ~g.live => ended[g.id].how = "raised" /\ ended[g.id].cause = "child"
                  /\ g.live /\ Top(g.eng).id = g.id => Top(g.eng).pc = "unwind"
                  /\ \A x \in EntriesAfter(g, f.remote_folder) : ~SubtreeStarted(x)
            /\ Ended(f.eng) => eng[f.eng].status = "raised"
            /\ \A t \in RunTasks(f.eng) :
                  tasks[t].result = "true" =>
                      Exists(tasks[t].local) /\ Size(tasks[t].local) = BodySize(t)

\* the listing of the innermost directory failed, the run has ended, and a file
\* submitted before the failure is committed
C15_Witness ==
    \E f \in Invocations :
        /\ ListingFailed(f) /\ f.remote_folder = DirU
        /\ Ended(f.eng)
        /\ EntriesAfter([remote_folder |-> RootRemote], DirU) = {FileC}
        /\ \E t \in RunTasks(f.eng) : tasks[t].result = "true" /\ Exists(tasks[t].local)

\* the GET of t's remote path answers with the file but without a Content-Length
Headerless(t) ==
    RemoteExists(world, tasks[t].remote) /\ ~RemoteFile(world, tasks[t].remote).cl

\* C16: a transfer whose response carries no Content-Length and whose body streams
\* to its end without any error returns success and leaves the whole body at the
\* final local path, whatever the number of bytes received.
C16_NoContentLength ==
    \A t \in TaskIds :
        Headerless(t) /\ tasks[t].pc = "done" /\ tasks[t].fault = "none" =>
            /\ tasks[t].result = "true"
            /\ Exists(tasks[t].local)
            /\ Size(tasks[t].local) = BodySize(t)

\* no other transfer, of this run or of another, uses t's temporary path
OwnTemp(t) == \A u \in TaskIds : u # t => Temp(u) # Temp(t)

\* C17: download_file never raises to its caller, whatever error it meets; and when
\* it has returned False, no file is left at its temporary path and the final
\* local path does not hold the file this call was writing.
C17_NeverRaises ==
    \A t \in TaskIds :
        /\ tasks[t].result \in {"none", "true", "false"}
        /\ tasks[t].result = "false" /\ OwnTemp(t) =>
              /\ ~Exists(Temp(t))
              /\ Exists(tasks[t].local) => files[tasks[t].local] # t

\* the entries of a folder's listing other than the folder itself, as filter_string
\* returns them, wherever they stand in the listing
Children(folder) ==
    LET l == Listing(world, folder)
    IN  {filter_string(BaseDir, l[i]) : i \in 1..Len(l)} \ {None, folder}

\* C18: whatever the order of the hrefs, an invocation never recurses into the
\* remote path it is itself listing, and when its loop is over every real child
\* of the listing has been dispatched.
C18_SelfDropped ==
    /\ \A e \in Engines : \A i \in 2..Len(stack[e]) :
          stack[e][i].remote_folder # stack[e][i - 1].remote_folder
    /\ \A e \in Engines : \A i \in 1..Len(stack[e]) :
          stack[e][i].pc = "join" =>
              \A x \in Children(stack[e][i].remote_folder) : SubtreeStarted(x)

Slashes(p) == Cardinality({i \in 1..Len(p) : p[i] = "/"})

\* x is a file or a directory directly inside folder
DirectChild(folder, x) ==
    /\ IsPrefix(folder, x) /\ x # folder
    /\ Slashes(x) = Slashes(folder) + (IF EndsWithSlash(x) THEN 1 ELSE 0)

\* the directories of the remote tree
Folders(w) == {d \in AllFolders : Listing(w, d) # None}

\* every listing gives the listed directory first and, after it, nothing that
\* download_folder keeps but direct children of that directory
WellListed(w) ==
    \A d \in Folders(w) :
        LET l == Listing(w, d)
        IN  /\ filter_string(BaseDir, l[1]) = d
            /\ \A i \in 2..Len(l) :
                  filter_string(BaseDir, l[i]) # None =>
                      DirectChild(d, filter_string(BaseDir, l[i]))

\* the depth of the remote tree: 1 for the root directory alone
TreeDepth(w) ==
    LET ds == {Slashes(d) - 1 : d \in Folders(w)}
    IN  CHOOSE n \in ds : \A k \in ds : k <= n

\* the recursion is no deeper than the tree and no directory is listed twice
Shallow ==
    /\ Len(stack[1]) <= TreeDepth(world)
    /\ \A d \in AllFolders :
          Cardinality({f \in Invocations : f.remote_folder = d}) <= 1

\* C19: over a finite tree whose listings give the listed directory first and only
\* direct children after it, and whose requests all complete or fail, the root
\* invocation eventually ends, by returning or by raising; until then the recursion
\* is never deeper than the tree and each directory is listed at most once.
C19_Terminates ==
    /\ [](WellListed(world) => Shallow)
    /\ <>(WellListed(world) => Ended(1))

\* the run over the chain of three directories has returned after listing the innermost
C19_Witness ==
    /\ world = "deep" /\ WellListed(world) /\ TreeDepth(world) = 3
    /\ eng[1].status = "returned"
    /\ \E f \in Invocations : f.remote_folder = DirU /\ ended[f.id].cause = "joined"

\* the invocation that submitted the transfer whose local path is the ledger line p
BatchOf(p) == tasks[CHOOSE t \in TaskIds : tasks[t].local = p].frame

FolderOf(fid) == (CHOOSE f \in Invocations : f.id = fid).remote_folder

\* a step that changes the ledger is the step of one invocation, the innermost of
\* its run, whose pool has been joined; it puts that invocation's whole batch
\* after the lines already there and touches no other ledger
LedgerAppend ==
    ledger' # ledger =>
        \E e \in Engines :
            /\ Live(e) /\ Top(e).pc = "join"
            /\ \A t \in TasksOf(Top(e).id) : tasks[t].pc = "done" /\ tasks[t].observed
            /\ Top(e).failed_downloads # << >>
            /\ DOMAIN ledger' = DOMAIN ledger \cup {eng[e].job_id}
            /\ ledger'[eng[e].job_id] = LedgerLines(eng[e].job_id) \o Top(e).failed_downloads
            /\ \A j \in DOMAIN ledger : j # eng[e].job_id => ledger'[j] = ledger[j]
            /\ Len(stack'[e]) = Len(stack[e]) - 1

\* the lines of one invocation are contiguous, and no line of an invocation comes
\* before a line of an invocation it encloses
LedgerOrdered ==
    \A j \in DOMAIN ledger :
        \A i \in 1..Len(ledger[j]) : \A k \in i..Len(ledger[j]) :
            LET fi == BatchOf(ledger[j][i])
                fk == BatchOf(ledger[j][k])
            IN  /\ fi = fk => \A m \in i..k : BatchOf(ledger[j][m]) = fi
                /\ fi # fk => ~IsPrefix(FolderOf(fi), FolderOf(fk))

\* C20: within a run the ledger changes only when an invocation whose pool has been
\* joined appends its whole batch at the end, one invocation at a time; the lines
\* of a batch are contiguous, the batch of a subdirectory precedes the batch of its
\* parent, and no earlier line is ever removed or rewritten.
C20_LedgerAppendOnly == [][LedgerAppend]_vars /\ []LedgerOrdered

\* the ledger holds the batch of a subdirectory followed by the batch of its parent
C20_Witness ==
    \E j \in DOMAIN ledger :
        /\ Len(ledger[j]) >= 2
        /\ FolderOf(BatchOf(ledger[j][1])) = DirS
        /\ FolderOf(BatchOf(ledger[j][Len(ledger[j])])) = RootRemote

====
